---- MODULE Spec2Model ----
(***************************************************************************)
(* A model of ssx_online.filewatcher: FileLineReader (the line tailer),    *)
(* FileWatcherEmitter / PIAWatcher (watcher, record store, registry) and   *)
(* PIAListener, together with the listen loop of fast.py that drains a     *)
(* listener under a timeout.                                               *)
(*                                                                         *)
(* Text is modelled as a sequence of tokens.  A token stands for a fixed   *)
(* piece of text made of whole JSON lexemes, so a file, a read and a line  *)
(* are token sequences and reads split the text at token boundaries:       *)
(*   <<"fn", v, _>>     {"file-number": v                                  *)
(*   <<"spots", t, a>>  , "n_spots_total": t, "n_spots_4A": a}             *)
(*   <<"close", _, _>>  }                                                  *)
(*   <<"list", _, _>>   [1, 2, 3]                                          *)
(*   <<"nl", _, _>>     the newline character                              *)
(*   <<"ff", _, _>>     the form feed character                            *)
(* A JSON scalar is <<"int", n>> (the integer n), <<"p53", n>> (the        *)
(* integer 2^53 + n, which no 32-bit integer holds) or <<"str", 0>> (the   *)
(* string "abc").                                                          *)
(***************************************************************************)
EXTENDS Integers, Sequences, FiniteSets, TLC

\* ------------------------------------------------------------ constants

\* Rows of the preallocated array and rows added by each growth.
InitialRows == 26000
GrowRows == 10000

\* Visits get_session_from_visit_code keeps before it drops the oldest.
CacheLimit == 128

\* Bounds of the explored inputs.
MaxFile == 4
MaxLines == 2
MaxListeners == 2
MaxStoreSteps == 3
MaxPieces == 3
MaxCalls == 3
MaxRegs == 2

\* ------------------------------------------------------- JSON scalars

IntV(n) == <<"int", n>>
P53(n) == <<"p53", n>>
StrV == <<"str", 0>>
Nil == IntV(0)

\* numpy's conversion of an integer to float64 (round half to even): every
\* integer of magnitude at most 2^53 is exact; in [2^53, 2^54) only the even
\* ones are.
Float64(v) ==
    IF v[1] = "p53"
    THEN IF v[2] % 2 = 0 THEN v
         ELSE IF (v[2] - 1) % 4 = 0 THEN P53(v[2] - 1) ELSE P53(v[2] + 1)
    ELSE v

\* The value an array of the given dtype holds after it is assigned v.
Cast(dtype, v) == IF dtype = "float64" THEN Float64(v) ELSE v

\* ------------------------------------------------------------- tokens

NL == <<"nl", Nil, Nil>>
FF == <<"ff", Nil, Nil>>
CloseTok == <<"close", Nil, Nil>>
ListTok == <<"list", Nil, Nil>>
FnTok(v) == <<"fn", v, Nil>>
SpotsTok(t, a) == <<"spots", t, a>>

\* Lines used as inputs.
GoodLine(n) == << FnTok(IntV(n)), SpotsTok(IntV(50), IntV(42)), NL >>
BigLine == << FnTok(IntV(3)), SpotsTok(P53(1), IntV(42)), NL >>
NotJsonLine == << CloseTok, NL >>
MissingKeyLine == << FnTok(IntV(1)), CloseTok, NL >>
NonObjectLine == << ListTok, NL >>
BadValueLine == << FnTok(StrV), SpotsTok(IntV(50), IntV(42)), NL >>

\* ---------------------------------------------------------- json.loads

JSONDecodeError == [kind |-> "JSONDecodeError", keys |-> {}, fn |-> Nil, tot |-> Nil, a4 |-> Nil]

\* json.loads(line): newlines between lexemes are whitespace; a form feed is
\* not.  The result is a dict (with its keys), a list, or a decode error.
json_loads(line) ==
    LET body == SelectSeq(line, LAMBDA t : t[1] # "nl")
    IN  IF Len(body) = 2 /\ body[1][1] = "fn" /\ body[2][1] = "spots"
        THEN [kind |-> "dict", keys |-> {"file-number", "n_spots_total", "n_spots_4A"},
              fn |-> body[1][2], tot |-> body[2][2], a4 |-> body[2][3]]
        ELSE IF Len(body) = 2 /\ body[1][1] = "fn" /\ body[2][1] = "close"
        THEN [kind |-> "dict", keys |-> {"file-number"},
              fn |-> body[1][2], tot |-> Nil, a4 |-> Nil]
        ELSE IF body = << ListTok >>
        THEN [kind |-> "list", keys |-> {}, fn |-> Nil, tot |-> Nil, a4 |-> Nil]
        ELSE JSONDecodeError

\* --------------------------------------------------------- str.splitlines

IsBoundary(t) == t[1] \in {"nl", "ff"}

RECURSIVE SplitFrom(_, _, _, _)
SplitFrom(data, i, cur, acc) ==
    IF i > Len(data)
    THEN IF cur = <<>> THEN acc ELSE Append(acc, cur)
    ELSE IF IsBoundary(data[i])
         THEN SplitFrom(data, i + 1, <<>>, Append(acc, Append(cur, data[i])))
         ELSE SplitFrom(data, i + 1, Append(cur, data[i]), acc)

\* data.splitlines(keepends=True)
splitlines(data) == SplitFrom(data, 1, <<>>, <<>>)

Contains(data, t) == \E i \in 1..Len(data) : data[i] = t
EndsWith(data, t) == Len(data) > 0 /\ data[Len(data)] = t
ButLast(s) == SubSeq(s, 1, Len(s) - 1)

\* Mutant of read_chunk: the buffered partial is never prepended.
read_chunk_drop(partial, data) ==
    LET lines0 == splitlines(data)
    IN  IF ~EndsWith(data, NL)
        THEN [partial |-> lines0[Len(lines0)], lines |-> ButLast(lines0)]
        ELSE [partial |-> <<>>, lines |-> lines0]

\* The body of the read loop for one non-empty read: the new partial line
\* and the (possibly empty) list of lines to yield.
read_chunk(partial, data) ==
    LET lines0 == splitlines(data)
        hasnl == Contains(data, NL)
        lines1 == IF hasnl THEN [lines0 EXCEPT ![1] = partial \o lines0[1]] ELSE lines0
        partial1 == IF hasnl THEN <<>> ELSE partial
    IN  IF ~EndsWith(data, NL)
        THEN [partial |-> lines1[Len(lines1)], lines |-> ButLast(lines1)]
        ELSE [partial |-> partial1, lines |-> lines1]


\* ------------------------------------------------------ the visit cache

\* A visit code such as mx1-7: the proposal code, the leading zeros written
\* before the proposal number, the proposal number and the visit number.
\* BadVisit is a text re_visit does not match.
VisitCode(pad, num) == [code |-> "mx", pad |-> pad, proposal |-> 1, num |-> num, ok |-> TRUE]
BadVisit == [code |-> "", pad |-> 0, proposal |-> 0, num |-> 0, ok |-> FALSE]

\* _split_visit_code: the groups of re_visit, the numbers through int(), which
\* drops leading zeros.
split_visit_code(visit) ==
    IF visit.ok
    THEN [exc |-> "none", key |-> << visit.code, visit.proposal, visit.num >>]
    ELSE [exc |-> "ValueError", key |-> << "", 0, 0 >>]

\* _get_blsession(...).one() on a database that holds the sessions of visit
\* numbers 1, 2, ... of the proposal: the ORM row, or NoResultFound.
get_blsession(key) ==
    IF key[3] >= 1
    THEN [exc |-> "none",
          row |-> [sessionId |-> key[3], visit_number |-> key[3],
                   Proposal |-> [proposalCode |-> key[1], proposalNumber |-> key[2]],
                   comments |-> "none"]]
    ELSE [exc |-> "NoResultFound", row |-> [sessionId |-> 0]]

\* DB_BLSession.from_orm: the declared fields of the model, nothing else (the
\* other attributes of an ORM object are not read).
from_orm(row) ==
    [sessionId |-> row.sessionId, visit_number |-> row.visit_number, Proposal |-> row.Proposal]

NoSession == [sessionId |-> 0]
EmptyDict == [v \in {} |-> NoSession]

\* results[visit] = blsession and del results[key]
dict_set(d, k, v) == [x \in DOMAIN d \cup {k} |-> IF x = k THEN v ELSE d[x]]
dict_del(d, k) == [x \in DOMAIN d \ {k} |-> d[x]]

\* get_session_from_visit_code on the cache c: the cache afterwards, the
\* session returned and the exception raised ("none" if none).
get_session_from_visit_code(c, visit) ==
    LET s == split_visit_code(visit)
        b == get_blsession(s.key)
        blsession == from_orm(b.row)
        visits == Append(c.visits, blsession)
        results == dict_set(c.results, visit, blsession)
        remove_visit == Head(visits)
    IN  IF visit \in DOMAIN c.results
        THEN [cache |-> c, ret |-> c.results[visit], exc |-> "none"]
        ELSE IF s.exc # "none"
        THEN [cache |-> c, ret |-> NoSession, exc |-> s.exc]
        ELSE IF b.exc # "none"
        THEN [cache |-> c, ret |-> NoSession, exc |-> "NoSuchVisitError"]
        ELSE IF Len(visits) <= CacheLimit
        THEN [cache |-> [visits |-> visits, results |-> results],
              ret |-> blsession, exc |-> "none"]
        ELSE IF "code" \notin DOMAIN remove_visit
        THEN [cache |-> [visits |-> Tail(visits), results |-> results],
              ret |-> NoSession, exc |-> "AttributeError"]
        ELSE IF remove_visit.code \notin DOMAIN results
        THEN [cache |-> [visits |-> Tail(visits), results |-> results],
              ret |-> NoSession, exc |-> "KeyError"]
        ELSE [cache |-> [visits |-> Tail(visits),
                         results |-> dict_del(results, remove_visit.code)],
              ret |-> blsession, exc |-> "none"]

\* ------------------------------------------------------------- the state

Paths == {"a.txt", "b.txt"}
Classes == {"FileWatcherEmitter", "PIAWatcher"}

VARIABLES
    fs,         \* the file system: path -> [exists, text]
    script,     \* the pipeline's plan: the pieces it writes and the writes done
    cache,      \* get_session_from_visit_code._cache: the list and the dict
    returned,   \* history: the calls of get_session_from_visit_code with their results
    registry,   \* FileWatcherEmitter._watchers: <<class, path>> -> watcher id, 0 if absent
    watchers,   \* the watcher objects, by id
    queues,     \* the asyncio.Queue objects, by id: the values each holds
    plisteners, \* the PIAListener objects with the state of their listen loop, by id
    yielded,    \* history: per watcher, the batches its tailer has yielded
    totals,     \* history: per watcher, new_items of every batch fully processed
    appended,   \* history: per watcher, the rows process_line has stored
    enq,        \* history: per queue, every value ever put into it
    regs,       \* history: per queue, its add_listener calls
    taken,      \* history: per listener, the values its waits have taken from its queue
    lookups     \* history: <<class, path, watcher id>> of every registry lookup

vars == << fs, script, cache, returned, registry, watchers, queues, plisteners,
           yielded, totals, appended, enq, regs, taken, lookups >>

hist == << yielded, totals, appended, enq, regs, taken, lookups >>

\* ---------------------------------------------------------- FileLineReader

\* FileLineReader.__init__, with the position of read_lines_continuous (pc),
\* the file object f ("none" before aiofiles.open, then "open", "closed" once
\* the async with block is left), its position (pos) and the local partial.
NewReader ==
    [pc |-> "isfile", f |-> "none", pos |-> 0, partial |-> <<>>, cancel |-> FALSE,
     seek |-> 0, line |-> 0]

\* ------------------------------------------------------------ the store

\* np.empty((26000, 3), dtype=int).  Rows 0..pre-1 hold PrefillRow (written by
\* earlier appends); rows pre.. hold cells[1], cells[2], ...
PrefillRow == << IntV(0), IntV(50), IntV(42) >>

NewData == [rows |-> InitialRows, dtype |-> "int64", pre |-> 0, cells |-> <<>>]

CastRow(dtype, row) == << Cast(dtype, row[1]), Cast(dtype, row[2]), Cast(dtype, row[3]) >>

\* self._data[i] for a written row i (0-based).
Row(w, i) == IF i < w.data.pre THEN PrefillRow ELSE w.data.cells[i - w.data.pre + 1]

\* new_data = np.empty((rows + 10000, 3)); new_data[:entries] = self._data
Grow(data) ==
    [rows |-> data.rows + GrowRows, dtype |-> "float64", pre |-> data.pre,
     cells |-> [i \in 1..Len(data.cells) |-> CastRow("float64", data.cells[i])]]

\* self._data[self._data_entries] = row
WriteRow(data, row) == [data EXCEPT !.cells = Append(@, CastRow(data.dtype, row))]

Max(a, b) == IF a > b THEN a ELSE b
Min(a, b) == IF a < b THEN a ELSE b

\* PIAWatcher.__getitem__ for the slices index = slice(start, None) and
\* index = slice(start, stop), with Python's slice rules (a negative bound
\* counts from the end and is clipped at 0); the rows are returned as a
\* sequence.
SliceBound(i, n) == IF i < 0 THEN Max(n + i, 0) ELSE Min(i, n)
Rows(w, lo, hi) == [j \in 1..Max(hi - lo, 0) |-> Row(w, lo + j - 1)]
getitem_from(w, start) ==
    Rows(w, SliceBound(start, w.data_entries), w.data_entries)
getitem(w, start, stop) ==
    Rows(w, SliceBound(start, w.data_entries), SliceBound(stop, w.data_entries))

\* --------------------------------------------------------- process_line

\* FileWatcherEmitter.process_line
base_process_line(w, line) == [w |-> w, ret |-> 0, exc |-> "NotImplementedError", row |-> <<>>]

\* Mutant of pia_process_line: the row is written before the keys are looked
\* up, a missing value as 0.
pia_process_line_early(w, line) ==
    LET data == json_loads(line)
        row == << data.fn, data.tot, data.a4 >>
        entries == w.data_entries + 1
        written == WriteRow(w.data, row)
    IN  IF data.kind = "JSONDecodeError"
        THEN [w |-> w, ret |-> 0, exc |-> "none", row |-> <<>>]
        ELSE IF data.kind # "dict"
        THEN [w |-> w, ret |-> 0, exc |-> "TypeError", row |-> <<>>]
        ELSE IF data.keys # {"file-number", "n_spots_total", "n_spots_4A"}
        THEN [w |-> [w EXCEPT !.data = written], ret |-> 0, exc |-> "none", row |-> <<>>]
        ELSE IF w.data_entries >= w.data.rows
        THEN [w |-> w, ret |-> 0, exc |-> "IndexError", row |-> <<>>]
        ELSE IF \E i \in 1..3 : row[i][1] = "str"
        THEN [w |-> w, ret |-> 0, exc |-> "ValueError", row |-> <<>>]
        ELSE [w |-> [w EXCEPT !.data = IF entries = written.rows THEN Grow(written) ELSE written,
                              !.data_entries = entries],
              ret |-> 1, exc |-> "none", row |-> row]

\* PIAWatcher.process_line: the watcher afterwards, the value returned, the
\* exception raised ("none" if none) and the record appended (<<>> if none).
pia_process_line(w, line) ==
    LET data == json_loads(line)
        row == << data.fn, data.tot, data.a4 >>
        entries == w.data_entries + 1
        written == WriteRow(w.data, row)
    IN  IF data.kind = "JSONDecodeError"
        THEN [w |-> w, ret |-> 0, exc |-> "none", row |-> <<>>]
        ELSE IF data.kind # "dict"
        THEN [w |-> w, ret |-> 0, exc |-> "TypeError", row |-> <<>>]
        ELSE IF data.keys # {"file-number", "n_spots_total", "n_spots_4A"}
        THEN [w |-> w, ret |-> 0, exc |-> "none", row |-> <<>>]
        ELSE IF w.data_entries >= w.data.rows
        THEN [w |-> w, ret |-> 0, exc |-> "IndexError", row |-> <<>>]
        ELSE IF \E i \in 1..3 : row[i][1] = "str"
        THEN [w |-> w, ret |-> 0, exc |-> "ValueError", row |-> <<>>]
        ELSE [w |-> [w EXCEPT !.data = IF entries = written.rows THEN Grow(written) ELSE written,
                              !.data_entries = entries],
              ret |-> 1, exc |-> "none", row |-> row]

process_line(w, line) ==
    IF w.cls = "PIAWatcher" THEN pia_process_line(w, line) ELSE base_process_line(w, line)

\* ------------------------------------------------------ FileWatcherEmitter

\* cls(filename): PIAWatcher.__init__ and FileWatcherEmitter.__init__; the
\* task it creates starts at the top of _consume_results.
new_watcher(cls, filename) ==
    [cls |-> cls, filename |-> filename, listeners |-> {}, item_count |-> 0,
     data |-> NewData, data_entries |-> 0, task |-> "running", reader |-> NewReader]

\* The for loop of _consume_results over the lines of one batch, from line i:
\* it stops at the first line that raises.
RECURSIVE ProcessLines(_, _, _, _, _)
ProcessLines(w, lines, i, new_items, rows) ==
    IF i > Len(lines)
    THEN [w |-> w, new_items |-> new_items, exc |-> "none", rows |-> rows]
    ELSE LET r == process_line(w, lines[i])
         IN  IF r.exc # "none"
             THEN [w |-> r.w, new_items |-> new_items, exc |-> r.exc, rows |-> rows]
             ELSE ProcessLines(r.w, lines, i + 1, new_items + r.ret,
                               IF r.ret = 1 THEN Append(rows, r.row) ELSE rows)

\* Mutant of consume_batch: the total is broadcast even when it is 0.
consume_batch_zero(w, lines) ==
    LET r == ProcessLines(w, lines, 1, 0, <<>>)
    IN  IF r.exc # "none"
        THEN [w |-> [r.w EXCEPT !.task = "failed"], puts |-> <<>>, done |-> FALSE,
              new_items |-> r.new_items, rows |-> r.rows]
        ELSE [w |-> [r.w EXCEPT !.item_count = @ + r.new_items],
              puts |-> << r.new_items >>,
              done |-> TRUE, new_items |-> r.new_items, rows |-> r.rows]

\* The body of the async for of _consume_results for one batch: the watcher
\* afterwards and the values to broadcast (at most one).  An exception ends
\* the task before _item_count is updated.
consume_batch(w, lines) ==
    LET r == ProcessLines(w, lines, 1, 0, <<>>)
    IN  IF r.exc # "none"
        THEN [w |-> [r.w EXCEPT !.task = "failed"], puts |-> <<>>, done |-> FALSE,
              new_items |-> r.new_items, rows |-> r.rows]
        ELSE [w |-> [r.w EXCEPT !.item_count = @ + r.new_items],
              puts |-> IF r.new_items > 0 THEN << r.new_items >> ELSE <<>>,
              done |-> TRUE, new_items |-> r.new_items, rows |-> r.rows]

\* Mutants of broadcast: only the listener with the lowest id is served; a
\* queue that holds a value takes no other.
broadcast_full(qs, listeners, puts) ==
    [q \in 1..Len(qs) |-> IF q \in listeners /\ qs[q] = <<>> THEN qs[q] \o puts ELSE qs[q]]
broadcast_first(qs, listeners, puts) ==
    [q \in 1..Len(qs) |->
        IF q \in listeners /\ \A q2 \in listeners : q <= q2 THEN qs[q] \o puts ELSE qs[q]]

\* Mutant of broadcast: the listeners are kept in a list, so a queue that was
\* registered twice is served twice.
broadcast_per_registration(qs, listeners, puts) ==
    [q \in 1..Len(qs) |->
        IF q \in listeners
        THEN IF Len(regs[q]) > 1 THEN qs[q] \o puts \o puts ELSE qs[q] \o puts
        ELSE qs[q]]

\* for listener in self._listeners: listener.put_nowait(new_items)
broadcast(qs, listeners, puts) ==
    [q \in 1..Len(qs) |-> IF q \in listeners THEN qs[q] \o puts ELSE qs[q]]

\* Mutant of add_listener_puts: from_index is not subtracted.
add_listener_puts_all(w, from_index) ==
    IF from_index < w.item_count THEN << w.item_count >> ELSE <<>>

\* add_listener: the values it puts into the listener (at most one).
add_listener_puts(w, from_index) ==
    IF from_index < w.item_count THEN << w.item_count - from_index >> ELSE <<>>

\* add_listener: the watcher afterwards.
add_listener(w, q) == [w EXCEPT !.listeners = @ \cup {q}]

\* Mutants of get_watcher_for_file: the registry is searched by path alone;
\* a watcher whose task has ended is replaced.
get_watcher_by_path(reg, ws, cls, filename) ==
    IF \E c \in Classes : reg[<<c, filename>>] # 0
    THEN reg[<<CHOOSE c \in Classes : reg[<<c, filename>>] # 0, filename>>]
    ELSE Len(ws) + 1
get_watcher_restart(reg, ws, cls, filename) ==
    IF reg[<<cls, filename>>] # 0 /\ ws[reg[<<cls, filename>>]].task = "running"
    THEN reg[<<cls, filename>>]
    ELSE Len(ws) + 1

\* get_watcher_for_file: the id of the watcher returned; it is a new object
\* (the next free id) exactly when the registry holds none.
get_watcher_for_file(reg, ws, cls, filename) ==
    IF reg[<<cls, filename>>] # 0 THEN reg[<<cls, filename>>] ELSE Len(ws) + 1

\* The registry and the watchers after get_watcher_for_file returned id.
registry_after(reg, ws, cls, filename, id) ==
    IF id > Len(ws) THEN [reg EXCEPT ![<<cls, filename>>] = id] ELSE reg
watchers_after(ws, cls, filename, id) ==
    IF id > Len(ws) THEN Append(ws, new_watcher(cls, filename)) ELSE ws
grown(h, ws, id) == IF id > Len(ws) THEN Append(h, <<>>) ELSE h

\* PIAListener.get_data_chunk once the queue has handed over count.
get_data_chunk(w, count) == getitem_from(w, 0 - count)

\* ------------------------------------------------------- the environment

\* The external pipeline creates the file.
CreateFile(p) ==
    /\ ~fs[p].exists
    /\ fs' = [fs EXCEPT ![p].exists = TRUE]
    /\ UNCHANGED << script, cache, returned, registry, watchers, queues, plisteners, hist >>

\* The pipeline appends one token of text.
WriteToken(p, t) ==
    /\ fs[p].exists
    /\ Len(fs[p].text) < MaxFile
    /\ fs' = [fs EXCEPT ![p].text = Append(@, t)]
    /\ UNCHANGED << script, cache, returned, registry, watchers, queues, plisteners, hist >>

LinesIn(text) == Cardinality({i \in 1..Len(text) : text[i] = NL})
RECURSIVE LinesWritten(_)
LinesWritten(ps) ==
    IF ps = {} THEN 0
    ELSE LET p == CHOOSE q \in ps : TRUE IN LinesIn(fs[p].text) + LinesWritten(ps \ {p})

\* The pipeline appends one whole line.
WriteLine(p, line) ==
    /\ fs[p].exists
    /\ LinesWritten(Paths) < MaxLines
    /\ fs' = [fs EXCEPT ![p].text = @ \o line]
    /\ UNCHANGED << script, cache, returned, registry, watchers, queues, plisteners, hist >>

\* The pipeline appends the next piece of its script once the tailer of the
\* file has read everything written before, so that every piece is seen by a
\* read of its own; the position of the tailer at the write is recorded.
WritePiece(p) ==
    LET w == registry[<<"PIAWatcher", p>>]
    IN  /\ fs[p].exists
        /\ Len(script.done) < Len(script.pieces)
        /\ watchers[w].reader.pos = Len(fs[p].text)
        /\ fs' = [fs EXCEPT ![p].text = @ \o script.pieces[Len(script.done) + 1]]
        /\ script' = [script EXCEPT !.done = Append(@, watchers[w].reader.pc)]
        /\ UNCHANGED << cache, returned, registry, watchers, queues, plisteners, hist >>

\* FileLineReader.cancel
Cancel(w) ==
    /\ w \in 1..Len(watchers)
    /\ ~watchers[w].reader.cancel
    /\ watchers' = [watchers EXCEPT ![w].reader.cancel = TRUE]
    /\ UNCHANGED << fs, script, cache, returned, registry, queues, plisteners, hist >>

\* ------------------------------------------- read_lines_continuous steps

Running(w, pc) ==
    /\ w \in 1..Len(watchers)
    /\ watchers[w].task = "running"
    /\ watchers[w].reader.pc = pc

\* while not await aiofiles.os.path.isfile(...): the check returns; when the
\* file is there the loop is left and aiofiles.open is awaited.
IsFile(w) ==
    /\ Running(w, "isfile")
    /\ watchers' = [watchers EXCEPT
                        ![w].reader.pc = IF fs[watchers[w].filename].exists
                                         THEN "open" ELSE "poll_wait"]
    /\ UNCHANGED << fs, script, cache, returned, registry, queues, plisteners, hist >>

\* async with aiofiles.open(self._filename, "r") as f: the open returns, the
\* file is at its first byte and partial is empty.
Open(w) ==
    /\ Running(w, "open")
    /\ watchers' = [watchers EXCEPT ![w].reader.pc = "read", ![w].reader.f = "open"]
    /\ UNCHANGED << fs, script, cache, returned, registry, queues, plisteners, hist >>

\* The end of a wait_for(self._cancel.wait(), timeout=1.0): return when the
\* event is set, continue the loop on the timeout.  A return inside the
\* async with block awaits f.close() before the generator ends; a return
\* before the file is opened ends the generator and the task at once.
wake(w, pc, next) ==
    /\ Running(w, pc)
    /\ watchers' = [watchers EXCEPT
                        ![w].reader.pc = IF ~watchers[w].reader.cancel THEN next
                                         ELSE IF watchers[w].reader.f = "open" THEN "close"
                                         ELSE "done",
                        ![w].task = IF watchers[w].reader.cancel /\ watchers[w].reader.f # "open"
                                    THEN "finished" ELSE @]
    /\ UNCHANGED << fs, script, cache, returned, registry, queues, plisteners, hist >>

\* __aexit__ of the async with block after the return: f.close() returns, the
\* generator ends, _consume_results leaves its loop and the task finishes.
Close(w) ==
    /\ Running(w, "close")
    /\ watchers' = [watchers EXCEPT ![w].reader.pc = "done", ![w].reader.f = "closed",
                                    ![w].task = "finished"]
    /\ UNCHANGED << fs, script, cache, returned, registry, queues, plisteners, hist >>

\* The generator of a task that ended with an exception is abandoned at its
\* yield; the event loop finalises it (aclose), which leaves the async with
\* block and closes the file.
Finalise(w) ==
    /\ w \in 1..Len(watchers)
    /\ watchers[w].task = "failed"
    /\ watchers[w].reader.f = "open"
    /\ watchers' = [watchers EXCEPT ![w].reader.f = "closed"]
    /\ UNCHANGED << fs, script, cache, returned, registry, queues, plisteners, hist >>

\* Mutant of PollWake: the wait for the file does not look at the event.
PollWake_recheck(w) ==
    /\ Running(w, "poll_wait")
    /\ watchers' = [watchers EXCEPT ![w].reader.pc = "isfile"]
    /\ UNCHANGED << fs, script, cache, returned, registry, queues, plisteners, hist >>

\* Mutants of IdleWake: the wait after an empty read does not look at the
\* event; an empty read is the end of the stream.
IdleWake_deaf(w) ==
    /\ Running(w, "idle_wait")
    /\ watchers' = [watchers EXCEPT ![w].reader.pc = "read"]
    /\ UNCHANGED << fs, script, cache, returned, registry, queues, plisteners, hist >>
IdleWake_eof(w) ==
    /\ Running(w, "idle_wait")
    /\ watchers' = [watchers EXCEPT ![w].reader.pc = "close"]
    /\ UNCHANGED << fs, script, cache, returned, registry, queues, plisteners, hist >>

PollWake(w) == wake(w, "poll_wait", "isfile")
IdleWake(w) == wake(w, "idle_wait", "read")

\* data := await f.read() returns: the file object is at the end of the text;
\* an empty read leaves the inner loop, otherwise f.tell() is awaited.
Read(w) ==
    /\ Running(w, "read")
    /\ LET text == fs[watchers[w].filename].text
       IN  watchers' = [watchers EXCEPT
               ![w].reader.pc = IF watchers[w].reader.pos = Len(text)
                                THEN "idle_wait" ELSE "tell",
               ![w].reader.pos = Len(text)]
    /\ UNCHANGED << fs, script, cache, returned, registry, queues, plisteners, hist >>

\* self._seek = await f.tell() returns, with what follows it up to the next
\* await f.read(): the lines are split off the data read (the text between
\* the previous _seek and the position of the file object) and, if there are
\* any, yielded to _consume_results, which processes the batch.
Tell(w) ==
    /\ Running(w, "tell")
    /\ LET o == watchers[w]
           text == fs[o.filename].text
           data == SubSeq(text, o.reader.seek + 1, o.reader.pos)
           r == read_chunk(o.reader.partial, data)
           o1 == [o EXCEPT !.reader.pc = "read", !.reader.seek = o.reader.pos,
                           !.reader.partial = r.partial,
                           !.reader.line = @ + Len(r.lines)]
           c == consume_batch(o1, r.lines)
       IN  IF r.lines = <<>>
           THEN /\ watchers' = [watchers EXCEPT ![w] = o1]
                /\ UNCHANGED << queues, hist >>
           ELSE /\ watchers' = [watchers EXCEPT ![w] = c.w]
                /\ queues' = broadcast(queues, c.w.listeners, c.puts)
                /\ enq' = broadcast(enq, c.w.listeners, c.puts)
                /\ yielded' = [yielded EXCEPT ![w] = Append(@, r.lines)]
                /\ totals' = [totals EXCEPT ![w] = IF c.done THEN Append(@, c.new_items) ELSE @]
                /\ appended' = [appended EXCEPT ![w] = @ \o c.rows]
                /\ UNCHANGED << regs, taken, lookups >>
    /\ UNCHANGED << fs, script, cache, returned, registry, plisteners >>

\* --------------------------------------------------- registry and listeners

\* A direct cls.get_watcher_for_file(filename).
Lookup(cls, p) ==
    LET id == get_watcher_for_file(registry, watchers, cls, p)
    IN  /\ registry' = registry_after(registry, watchers, cls, p, id)
        /\ watchers' = watchers_after(watchers, cls, p, id)
        /\ yielded' = grown(yielded, watchers, id)
        /\ totals' = grown(totals, watchers, id)
        /\ appended' = grown(appended, watchers, id)
        /\ lookups' = lookups \cup {<<cls, p, id>>}
        /\ UNCHANGED << fs, script, cache, returned, queues, plisteners, enq, regs, taken >>

\* PIAListener(filename, offset), as the listen loop of
\* get_datacollection_pia creates it before its first wait.
NewListener(p, k) ==
    LET q == Len(queues) + 1
        id == get_watcher_for_file(registry, watchers, "PIAWatcher", p)
        ws == watchers_after(watchers, "PIAWatcher", p, id)
        puts == add_listener_puts(ws[id], k)
    IN  /\ Len(plisteners) < MaxListeners
        /\ registry' = registry_after(registry, watchers, "PIAWatcher", p, id)
        /\ watchers' = [ws EXCEPT ![id] = add_listener(@, q)]
        /\ queues' = Append(queues, puts)
        /\ plisteners' = Append(plisteners,
              [filename |-> p, offset |-> k, queue |-> q, watcher |-> id,
               pc |-> "waiting", data |-> <<>>])
        /\ yielded' = grown(yielded, watchers, id)
        /\ totals' = grown(totals, watchers, id)
        /\ appended' = grown(appended, watchers, id)
        /\ enq' = Append(enq, puts)
        /\ regs' = Append(regs, << [watcher |-> id, from_index |-> k,
                                    item_count |-> ws[id].item_count,
                                    entries |-> ws[id].data_entries,
                                    task |-> ws[id].task,
                                    batches |-> Len(grown(totals, watchers, id)[id])] >>)
        /\ taken' = Append(taken, <<>>)
        /\ lookups' = lookups \cup {<<"PIAWatcher", p, id>>}
        /\ UNCHANGED << fs, script, cache, returned >>

\* watcher.add_listener(queue, from_index) called again with a queue the
\* watcher already holds.
ReRegister(q, k) ==
    /\ q \in 1..Len(queues)
    /\ Len(regs[q]) < MaxRegs
    /\ LET id == regs[q][1].watcher
           puts == add_listener_puts(watchers[id], k)
       IN  /\ watchers' = [watchers EXCEPT ![id] = add_listener(@, q)]
           /\ queues' = [queues EXCEPT ![q] = @ \o puts]
           /\ enq' = [enq EXCEPT ![q] = @ \o puts]
           /\ regs' = [regs EXCEPT ![q] = Append(@,
                          [watcher |-> id, from_index |-> k,
                           item_count |-> watchers[id].item_count,
                           entries |-> watchers[id].data_entries,
                           task |-> watchers[id].task,
                           batches |-> Len(totals[id])])]
    /\ UNCHANGED << fs, script, cache, returned, registry, plisteners,
                    yielded, totals, appended, taken, lookups >>

Waiting(l) == l \in 1..Len(plisteners) /\ plisteners[l].pc = "waiting"

\* data = await asyncio.wait_for(listener.get_data_chunk(), timeout=10)
\* resolving with data: the queue hands over its oldest value, the chunk is
\* sent to the client and the loop starts its next wait.
Deliver(l) ==
    /\ Waiting(l)
    /\ queues[plisteners[l].queue] # <<>>
    /\ LET q == plisteners[l].queue
           count == Head(queues[q])
       IN  /\ queues' = [queues EXCEPT ![q] = Tail(@)]
           /\ plisteners' = [plisteners EXCEPT
                  ![l].data = get_data_chunk(watchers[plisteners[l].watcher], count)]
           /\ taken' = [taken EXCEPT ![l] = Append(@, count)]
    /\ UNCHANGED << fs, script, cache, returned, registry, watchers, yielded, totals, appended, enq, regs, lookups >>

\* Mutant of Timeout: get_data_chunk is awaited without a timeout, so an idle
\* wait stays pending.
Timeout_none(l) ==
    /\ Waiting(l)
    /\ queues[plisteners[l].queue] = <<>>
    /\ UNCHANGED vars

\* Mutant of Timeout: the listen loop unregisters its channel when it ends.
Timeout_unregister(l) ==
    /\ Waiting(l)
    /\ queues[plisteners[l].queue] = <<>>
    /\ plisteners' = [plisteners EXCEPT ![l].pc = "timeout"]
    /\ watchers' = [watchers EXCEPT
                        ![plisteners[l].watcher].listeners = @ \ {plisteners[l].queue}]
    /\ UNCHANGED << fs, script, cache, returned, registry, queues, hist >>

\* The timeout of the wait elapses with the get still pending: the wait
\* raises asyncio.TimeoutError and the listen loop ends.
Timeout(l) ==
    /\ Waiting(l)
    /\ queues[plisteners[l].queue] = <<>>
    /\ plisteners' = [plisteners EXCEPT ![l].pc = "timeout"]
    /\ UNCHANGED << fs, script, cache, returned, registry, watchers, queues, hist >>

\* ------------------------------------------------------ specifications

NoFiles == [p \in Paths |-> [exists |-> FALSE, text |-> <<>>]]
NoScript == [pieces |-> <<>>, done |-> <<>>]
NoCache == [visits |-> <<>>, results |-> EmptyDict]
NoRegistry == [k \in Classes \X Paths |-> 0]

Init ==
    /\ fs = NoFiles
    /\ script = NoScript
    /\ cache = NoCache
    /\ returned = <<>>
    /\ registry = NoRegistry
    /\ watchers = <<>>
    /\ queues = <<>>
    /\ plisteners = <<>>
    /\ yielded = <<>>
    /\ totals = <<>>
    /\ appended = <<>>
    /\ enq = <<>>
    /\ regs = <<>>
    /\ taken = <<>>
    /\ lookups = {}

\* The pipeline numbers its records: the next well-formed line carries the
\* number of lines written so far plus one.
SampleLines == { GoodLine(LinesWritten(Paths) + 1), NotJsonLine, NonObjectLine }
Offsets == {0, 1}
MainPaths == {"b.txt"}

\* Listeners that await get_data_chunk without a timeout.
Next ==
    \/ \E p \in MainPaths : CreateFile(p)
    \/ \E p \in MainPaths, line \in SampleLines : WriteLine(p, line)
    \/ \E w \in 1..Len(watchers) : IsFile(w)
    \/ \E w \in 1..Len(watchers) : PollWake(w)
    \/ \E w \in 1..Len(watchers) : Open(w)
    \/ \E w \in 1..Len(watchers) : Read(w)
    \/ \E w \in 1..Len(watchers) : Tell(w)
    \/ \E w \in 1..Len(watchers) : IdleWake(w)
    \/ \E w \in 1..Len(watchers) : Finalise(w)
    \/ \E p \in MainPaths : Lookup("PIAWatcher", p)
    \/ \E p \in MainPaths, k \in Offsets : NewListener(p, k)
    \/ \E l \in 1..Len(plisteners) : Deliver(l)

Spec == Init /\ [][Next]_vars


\* The listen loop of get_datacollection_pia: listeners of b.txt at offset 0
\* whose waits are under a timeout.  The event loop runs every timer that is
\* due.
IdleNext ==
    \/ \E p \in MainPaths : CreateFile(p)
    \/ \E p \in MainPaths, line \in SampleLines : WriteLine(p, line)
    \/ \E w \in 1..Len(watchers) : IsFile(w)
    \/ \E w \in 1..Len(watchers) : PollWake(w)
    \/ \E w \in 1..Len(watchers) : Open(w)
    \/ \E w \in 1..Len(watchers) : Read(w)
    \/ \E w \in 1..Len(watchers) : Tell(w)
    \/ \E w \in 1..Len(watchers) : IdleWake(w)
    \/ \E w \in 1..Len(watchers) : Finalise(w)
    \/ \E p \in MainPaths : Lookup("PIAWatcher", p)
    \/ \E p \in MainPaths, k \in {0} : NewListener(p, k)
    \/ \E l \in 1..Len(plisteners) : Deliver(l)
    \/ \E l \in 1..Len(plisteners) : Timeout(l)

IdleSpec ==
    Init /\ [][IdleNext]_vars /\ \A l \in 1..MaxListeners : WF_vars(Timeout(l))

\* ---------------------------------------------------- the tailer alone

\* One PIAWatcher on a file that does not exist yet, fed token by token; the
\* tailer can be cancelled.
TailPath == "a.txt"
TailAlphabet == { FnTok(IntV(1)), SpotsTok(IntV(50), IntV(42)), NL, FF }

TailInit ==
    /\ fs = NoFiles
    /\ script = NoScript
    /\ cache = NoCache
    /\ returned = <<>>
    /\ registry = registry_after(NoRegistry, <<>>, "PIAWatcher", TailPath, 1)
    /\ watchers = watchers_after(<<>>, "PIAWatcher", TailPath, 1)
    /\ queues = <<>>
    /\ plisteners = <<>>
    /\ yielded = << <<>> >>
    /\ totals = << <<>> >>
    /\ appended = << <<>> >>
    /\ enq = <<>>
    /\ regs = <<>>
    /\ taken = <<>>
    /\ lookups = {<<"PIAWatcher", TailPath, 1>>}

TailNext ==
    \/ CreateFile(TailPath)
    \/ \E t \in TailAlphabet : WriteToken(TailPath, t)
    \/ Cancel(1)
    \/ IsFile(1)
    \/ PollWake(1)
    \/ Open(1)
    \/ Read(1)
    \/ Tell(1)
    \/ IdleWake(1)
    \/ Close(1)

TailSpec == TailInit /\ [][TailNext]_vars

\* ------------------------------------------- the tailer under a script
\* A PIAListener of a file that does not exist yet; the pipeline creates the
\* file and writes the pieces of a script, each seen by a read of its own.
\* The event loop runs every task that is ready and every timer that is due:
\* each step of the tailer is weakly fair.  Read(w) and Tell(w) are enabled
\* exactly when Running(w, "read") and Running(w, "tell") hold (each of their
\* branches changes the reader), and their weak fairness is written with
\* these predicates.
ScriptPieces == { GoodLine(1), << FnTok(IntV(1)) >>, << SpotsTok(IntV(50), IntV(42)), NL >>, << NL >> }

ScriptInit ==
    /\ fs = NoFiles
    /\ script \in { [pieces |-> ps, done |-> <<>>] : ps \in [1..MaxPieces -> ScriptPieces] }
    /\ cache = NoCache
    /\ returned = <<>>
    /\ registry = registry_after(NoRegistry, <<>>, "PIAWatcher", TailPath, 1)
    /\ watchers = << add_listener(new_watcher("PIAWatcher", TailPath), 1) >>
    /\ queues = << add_listener_puts(new_watcher("PIAWatcher", TailPath), 0) >>
    /\ plisteners = << [filename |-> TailPath, offset |-> 0, queue |-> 1, watcher |-> 1,
                        pc |-> "waiting", data |-> <<>>] >>
    /\ yielded = << <<>> >>
    /\ totals = << <<>> >>
    /\ appended = << <<>> >>
    /\ enq = << <<>> >>
    /\ regs = << << [watcher |-> 1, from_index |-> 0, item_count |-> 0, entries |-> 0,
                     task |-> "running", batches |-> 0] >> >>
    /\ taken = << <<>> >>
    /\ lookups = {<<"PIAWatcher", TailPath, 1>>}

ScriptNext ==
    \/ CreateFile(TailPath)
    \/ WritePiece(TailPath)
    \/ Cancel(1)
    \/ IsFile(1)
    \/ PollWake(1)
    \/ Open(1)
    \/ Read(1)
    \/ Tell(1)
    \/ IdleWake(1)
    \/ Close(1)

ScriptSpec ==
    /\ ScriptInit /\ [][ScriptNext]_vars
    /\ WF_vars(IsFile(1)) /\ WF_vars(PollWake(1)) /\ WF_vars(IdleWake(1))
    /\ WF_vars(Open(1)) /\ WF_vars(Close(1))
    /\ ([]<>(~Running(1, "read")) \/ []<><<Read(1)>>_vars)
    /\ ([]<>(~Running(1, "tell")) \/ []<><<Tell(1)>>_vars)

\* ----------------------------------------------------- the store alone

\* A PIAWatcher whose store already holds pre rows, as after pre well-formed
\* lines, with process_line applied to single lines.
StoreLines ==
    { GoodLine(1), BigLine, NotJsonLine, MissingKeyLine, NonObjectLine, BadValueLine }

Prefilled(pre) ==
    LET grown1 == pre >= InitialRows
        data == [rows |-> IF grown1 THEN InitialRows + GrowRows ELSE InitialRows,
                 dtype |-> IF grown1 THEN "float64" ELSE "int64",
                 pre |-> pre, cells |-> <<>>]
    IN  [new_watcher("PIAWatcher", TailPath) EXCEPT
            !.data = data, !.data_entries = pre, !.item_count = pre]

StoreInit ==
    /\ fs = NoFiles
    /\ script = NoScript
    /\ cache = NoCache
    /\ returned = <<>>
    /\ registry = registry_after(NoRegistry, <<>>, "PIAWatcher", TailPath, 1)
    /\ \E pre \in {0, InitialRows - 2, InitialRows + GrowRows - 2} :
           watchers = << Prefilled(pre) >>
    /\ queues = <<>>
    /\ plisteners = <<>>
    /\ yielded = << <<>> >>
    /\ totals = << <<>> >>
    /\ appended = << <<>> >>
    /\ enq = <<>>
    /\ regs = <<>>
    /\ taken = <<>>
    /\ lookups = {<<"PIAWatcher", TailPath, 1>>}

\* One call of process_line; the history keeps the line, the value returned
\* (-1 when it raised) and the record appended.
StoreCall(line) ==
    LET r == process_line(watchers[1], line)
    IN  /\ Len(yielded[1]) < MaxStoreSteps
        /\ watchers' = [watchers EXCEPT ![1] = r.w]
        /\ yielded' = [yielded EXCEPT ![1] = Append(@, << line >>)]
        /\ totals' = [totals EXCEPT ![1] = Append(@, IF r.exc = "none" THEN r.ret ELSE -1)]
        /\ appended' = [appended EXCEPT ![1] = IF r.ret = 1 THEN Append(@, r.row) ELSE @]
        /\ UNCHANGED << fs, script, cache, returned, registry, queues, plisteners, enq, regs, taken, lookups >>

StoreNext == \E line \in StoreLines : StoreCall(line)

StoreSpec == StoreInit /\ [][StoreNext]_vars

\* ----------------------------------------------------- the visit cache

\* The cache after the visits mx1-1 .. mx1-n were looked up in this order.
CachePrefilled(n) ==
    [visits |-> [i \in 1..n |-> from_orm(get_blsession(<< "mx", 1, i >>).row)],
     results |-> [v \in { VisitCode(0, i) : i \in 1..n } |->
                     from_orm(get_blsession(split_visit_code(v).key).row)]]

CacheInit ==
    /\ fs = NoFiles
    /\ script = NoScript
    /\ cache \in { CachePrefilled(n) : n \in {0, CacheLimit - 1, CacheLimit} }
    /\ returned = <<>>
    /\ registry = NoRegistry
    /\ watchers = <<>>
    /\ queues = <<>>
    /\ plisteners = <<>>
    /\ yielded = <<>>
    /\ totals = <<>>
    /\ appended = <<>>
    /\ enq = <<>>
    /\ regs = <<>>
    /\ taken = <<>>
    /\ lookups = {}

\* One call of get_session_from_visit_code.
CacheCall(visit) ==
    LET r == get_session_from_visit_code(cache, visit)
    IN  /\ Len(returned) < MaxCalls
        /\ cache' = r.cache
        /\ returned' = Append(returned, [visit |-> visit, ret |-> r.ret, exc |-> r.exc])
        /\ UNCHANGED << fs, script, registry, watchers, queues, plisteners, hist >>

\* get_session_from_visit_code.clear_cache(), the attribute the first call
\* installs: the cache is replaced by an empty list and an empty dict.
ClearCache ==
    /\ returned # <<>> \/ cache # NoCache
    /\ cache' = NoCache
    /\ UNCHANGED << fs, script, returned, registry, watchers, queues, plisteners, hist >>

\* The visit codes asked for: the oldest visit, the same with a leading zero,
\* a visit never asked for, a visit the database does not hold, and a text
\* that is no visit code.
NewNum == 1 + Cardinality({ v.num : v \in DOMAIN cache.results })
CacheVisits == { VisitCode(0, 1), VisitCode(1, 1), VisitCode(0, NewNum), VisitCode(0, 0), BadVisit }

CacheNext ==
    \/ \E visit \in CacheVisits : CacheCall(visit)
    \/ ClearCache

CacheSpec == CacheInit /\ [][CacheNext]_vars

\* The registry with watchers of both classes and of both paths, tailers that
\* are cancelled or end with an exception.  Only b.txt is ever created, the
\* pipeline writes a well-formed line and then lines that are no JSON object;
\* one listener is created and the tailer of its watcher is the one that is
\* cancelled.
RegistryKeys ==
    { <<"FileWatcherEmitter", "b.txt">>, <<"PIAWatcher", "b.txt">>, <<"PIAWatcher", "a.txt">> }
RegistryLines == IF LinesWritten(Paths) = 0 THEN { GoodLine(1) } ELSE { NonObjectLine }

RegistryNext ==
    \/ \E p \in MainPaths : CreateFile(p)
    \/ \E p \in MainPaths, line \in RegistryLines : WriteLine(p, line)
    \/ \E p \in MainPaths : Cancel(registry[<<"PIAWatcher", p>>])
    \/ \E w \in 1..Len(watchers) : IsFile(w)
    \/ \E w \in 1..Len(watchers) : PollWake(w)
    \/ \E w \in 1..Len(watchers) : Open(w)
    \/ \E w \in 1..Len(watchers) : Read(w)
    \/ \E w \in 1..Len(watchers) : Tell(w)
    \/ \E w \in 1..Len(watchers) : IdleWake(w)
    \/ \E w \in 1..Len(watchers) : Close(w)
    \/ \E w \in 1..Len(watchers) : Finalise(w)
    \/ \E key \in RegistryKeys : Lookup(key[1], key[2])
    \/ \E p \in MainPaths : plisteners = <<>> /\ NewListener(p, 0)

RegistrySpec == Init /\ [][RegistryNext]_vars

\* One listener whose queue is registered again on its watcher.
ReRegisterNext ==
    \/ \E p \in MainPaths : CreateFile(p)
    \/ \E p \in MainPaths, line \in SampleLines : WriteLine(p, line)
    \/ \E w \in 1..Len(watchers) : IsFile(w)
    \/ \E w \in 1..Len(watchers) : PollWake(w)
    \/ \E w \in 1..Len(watchers) : Open(w)
    \/ \E w \in 1..Len(watchers) : Read(w)
    \/ \E w \in 1..Len(watchers) : Tell(w)
    \/ \E w \in 1..Len(watchers) : IdleWake(w)
    \/ \E w \in 1..Len(watchers) : Finalise(w)
    \/ \E p \in MainPaths, k \in Offsets : plisteners = <<>> /\ NewListener(p, k)
    \/ \E q \in 1..Len(queues), k \in Offsets : ReRegister(q, k)

ReRegisterSpec == Init /\ [][ReRegisterNext]_vars

\* ------------------------------------------------------------ properties

RECURSIVE Sum(_)
Sum(s) == IF s = <<>> THEN 0 ELSE Head(s) + Sum(Tail(s))

RECURSIVE Flatten(_)
Flatten(batches) == IF batches = <<>> THEN <<>> ELSE Head(batches) \o Flatten(Tail(batches))

NonZero(s) == SelectSeq(s, LAMBDA n : n # 0)

\* The newline-terminated lines of a text, in order (the text after the last
\* newline is left out).
RECURSIVE CompleteFrom(_, _, _, _)
CompleteFrom(text, i, cur, acc) ==
    IF i > Len(text) THEN acc
    ELSE IF text[i] = NL
         THEN CompleteFrom(text, i + 1, <<>>, Append(acc, Append(cur, NL)))
         ELSE CompleteFrom(text, i + 1, Append(cur, text[i]), acc)
CompleteLines(text) == CompleteFrom(text, 1, <<>>, <<>>)

\* A line is well formed when it is a JSON object with the three keys and
\* integer values; its record is the three values.
WellFormed(line) ==
    LET d == json_loads(line)
    IN  /\ d.kind = "dict"
        /\ d.keys = {"file-number", "n_spots_total", "n_spots_4A"}
        /\ \A v \in {d.fn, d.tot, d.a4} : v[1] # "str"
RecordOf(line) == LET d == json_loads(line) IN << d.fn, d.tot, d.a4 >>
RecordsOf(lines) ==
    LET good == SelectSeq(lines, WellFormed)
    IN  [i \in 1..Len(good) |-> RecordOf(good[i])]

FirstReg(q) == regs[q][1]
Backlog(r) == IF r.from_index < r.item_count THEN << r.item_count - r.from_index >> ELSE <<>>

\* C1 (line reassembly).  For a text T without form feeds, read in any number
\* of pieces: the lines yielded so far, in order, are exactly the
\* newline-terminated lines of the part of T read so far (up to _seek); the
\* unterminated rest is yielded only once a later read completes it.
C1_LineReassembly ==
    LET T == SubSeq(fs[TailPath].text, 1, watchers[1].reader.seek)
    IN  ~Contains(T, FF) => Flatten(yielded[1]) = CompleteLines(T)

\* C2 (chunk content).  For a listener registered at an offset k not beyond
\* the store's length, the chunk its latest wait returned holds the records
\* from k plus the values taken before, up to k plus the values taken so far:
\* the chunks concatenated are the records k, k+1, ... each once.
C2_ChunkContent ==
    \A l \in 1..Len(plisteners) :
        LET o == plisteners[l]
            k == o.offset
        IN  (taken[l] # <<>> /\ k <= FirstReg(o.queue).entries) =>
                o.data = Rows(watchers[o.watcher], k + Sum(ButLast(taken[l])), k + Sum(taken[l]))

\* C3 (backlog catch-up).  A registration with from_index below the item count
\* puts item count - from_index into the channel within the call: it is the
\* first value the channel holds, ahead of every batch total.
C3_BacklogCatchUp ==
    \A l \in 1..Len(plisteners) :
        LET q == plisteners[l].queue
            r == FirstReg(q)
        IN  r.from_index < r.item_count =>
                /\ enq[q] # <<>>
                /\ enq[q][1] = r.item_count - r.from_index
                /\ IF taken[l] = <<>>
                   THEN queues[q] # <<>> /\ queues[q][1] = r.item_count - r.from_index
                   ELSE taken[l][1] = r.item_count - r.from_index

C3_Witness ==
    \E l \in 1..Len(plisteners) :
        /\ plisteners[l].offset = 1
        /\ FirstReg(plisteners[l].queue).item_count = 2
        /\ queues[plisteners[l].queue] = << 1 >>

\* C4 (exactly-once delta).  A batch whose lines add a nonzero number of
\* records to the store puts that number once into every channel of the
\* listener set and into no other channel; a channel registered later finds
\* the records of every earlier batch in the item count its backlog is
\* computed from.
C4_Step ==
    \A w \in 1..Len(watchers) :
        LET parsed == Len(appended'[w]) - Len(appended[w])
        IN  (Len(yielded'[w]) = Len(yielded[w]) + 1 /\ parsed > 0) =>
                \A q \in 1..Len(queues) :
                    IF q \in watchers[w].listeners
                    THEN /\ queues'[q] = Append(queues[q], parsed)
                         /\ enq'[q] = Append(enq[q], parsed)
                    ELSE queues'[q] = queues[q] /\ enq'[q] = enq[q]

C4_Registered ==
    \A q \in 1..Len(regs) : FirstReg(q).item_count = FirstReg(q).entries

C4_ExactlyOnce == [][C4_Step]_vars /\ []C4_Registered

\* C5 (malformed data is never fatal).  Whatever the lines of a batch, the
\* consume loop keeps running and the store holds one record for every
\* well-formed line yielded so far.
C5_MalformedNeverFatal ==
    \A w \in 1..Len(watchers) :
        /\ watchers[w].task # "failed"
        /\ appended[w] = RecordsOf(Flatten(yielded[w]))

\* C6 (singleton dedup).  Lookups of the same class and path return the same
\* watcher, only the first constructs one, and the records in the store when
\* a listener registers are reported to it as backlog.
C6_SingletonDedup ==
    /\ \A a, b \in lookups : (a[1] = b[1] /\ a[2] = b[2]) => a[3] = b[3]
    /\ Len(watchers) = Cardinality({k \in DOMAIN registry : registry[k] # 0})
    /\ \A q \in 1..Len(regs) :
           LET r == FirstReg(q)
           IN  r.from_index < r.entries =>
                   enq[q] # <<>> /\ enq[q][1] = r.entries - r.from_index

\* C7 (store order preservation).  After n successful appends the store's
\* length is n and its rows are the n records in append order, growth
\* included.
C7_StoreOrder ==
    LET w == watchers[1]
    IN  /\ w.data_entries = w.data.pre + Len(appended[1])
        /\ getitem(w, w.data.pre, w.data_entries) = appended[1]

\* C8 (fan-out independence).  The values ever put into a channel are its own
\* backlog followed by the nonzero totals of the batches processed after its
\* registration, and the channel holds those of them its own listener has not
\* taken: nothing another listener does enters into either.
C8_FanOut ==
    \A l \in 1..Len(plisteners) :
        LET q == plisteners[l].queue
            r == FirstReg(q)
            later == SubSeq(totals[r.watcher], r.batches + 1, Len(totals[r.watcher]))
        IN  /\ r.from_index = plisteners[l].offset
            /\ enq[q] = Backlog(r) \o NonZero(later)
            /\ taken[l] = SubSeq(enq[q], 1, Len(taken[l]))
            /\ queues[q] = SubSeq(enq[q], Len(taken[l]) + 1, Len(enq[q]))

C8_Witness ==
    \E l1, l2 \in 1..Len(plisteners) :
        /\ plisteners[l1].watcher = plisteners[l2].watcher
        /\ plisteners[l1].offset = 0
        /\ plisteners[l2].offset = 1
        /\ enq[plisteners[l1].queue] = << 1, 1 >>
        /\ enq[plisteners[l2].queue] = << 1 >>
        /\ taken[l1] = << 1 >>
        /\ queues[plisteners[l1].queue] = << 1 >>
        /\ taken[l2] = <<>>
        /\ queues[plisteners[l2].queue] = << 1 >>

\* C9 (creation-race freedom).  When the tailer, not cancelled, has read a
\* file without form feeds up to its end, the store holds one record for
\* every well-formed complete line of the file, in file order.
C9_CreationRace ==
    LET w == watchers[1]
        text == fs[TailPath].text
    IN  (/\ w.task = "running"
         /\ ~w.reader.cancel
         /\ w.reader.pc = "idle_wait"
         /\ w.reader.pos = Len(text)
         /\ ~Contains(text, FF))
        => getitem(w, 0, w.data_entries) = RecordsOf(CompleteLines(text))

\* C10 (idle timeout).  A wait on an empty channel that ends, ends with the
\* timeout and hands over no chunk; and no wait stays on an empty channel for
\* ever.
IdleWait(l) ==
    /\ Waiting(l)
    /\ queues[plisteners[l].queue] = <<>>

C10_Step ==
    \A l \in 1..Len(plisteners) :
        (IdleWait(l) /\ plisteners'[l].pc # "waiting") =>
            /\ plisteners'[l].pc = "timeout"
            /\ plisteners'[l].data = plisteners[l].data
            /\ taken'[l] = taken[l]

C10_IdleTimeout ==
    /\ [][C10_Step]_vars
    /\ \A l \in 1..MaxListeners : []<>(~IdleWait(l))

C10_Witness ==
    \E l \in 1..Len(plisteners) : plisteners[l].pc = "timeout" /\ taken[l] = <<>>

\* C11 (listener timeouts are local).  The step in which a listener's wait
\* ends in the timeout changes nothing in any watcher (task, store, item
\* count, listener set), in any channel or in any other listener; the channel
\* of a timed-out listener stays registered, and every later batch total is
\* put into it.
C11_Step ==
    \A l \in 1..Len(plisteners) :
        /\ (plisteners[l].pc = "waiting" /\ plisteners'[l].pc = "timeout") =>
                /\ watchers' = watchers
                /\ queues' = queues
                /\ enq' = enq
                /\ taken' = taken
                /\ \A l2 \in 1..Len(plisteners) : l2 # l => plisteners'[l2] = plisteners[l2]
        /\ plisteners[l].pc = "timeout" =>
                LET w == plisteners[l].watcher
                    q == plisteners[l].queue
                IN  (Len(totals'[w]) = Len(totals[w]) + 1 /\ totals'[w][Len(totals'[w])] > 0) =>
                        enq'[q] = Append(enq[q], totals'[w][Len(totals'[w])])

C11_Registered ==
    \A l \in 1..Len(plisteners) :
        plisteners[l].pc = "timeout" =>
            plisteners[l].queue \in watchers[plisteners[l].watcher].listeners

C11_TimeoutLocal == [][C11_Step]_vars /\ []C11_Registered

C11_Witness ==
    \E l1, l2 \in 1..Len(plisteners) :
        /\ plisteners[l1].pc = "timeout"
        /\ taken[l1] = <<>>
        /\ queues[plisteners[l1].queue] = << 1 >>
        /\ watchers[plisteners[l1].watcher].task = "running"
        /\ plisteners[l2].watcher = plisteners[l1].watcher
        /\ plisteners[l2].pc = "waiting"
        /\ taken[l2] = << 1 >>

\* C12 (split-line scenario).  When the script is a complete line, then an
\* unterminated fragment, then a completion ending in the newline (texts
\* without other line boundaries), each seen by a read of its own: after the
\* first read the batches are the one batch holding the first line, after the
\* second read nothing more, after the third read one more batch holding the
\* fragment followed by its completion.
OneLine(text) == EndsWith(text, NL) /\ \A i \in 1..(Len(text) - 1) : ~IsBoundary(text[i])

SplitScenario(ps) ==
    /\ Len(ps) >= 3
    /\ OneLine(ps[1])
    /\ ps[2] # <<>> /\ \A i \in 1..Len(ps[2]) : ~IsBoundary(ps[2][i])
    /\ OneLine(ps[3])

C12_SplitLine ==
    LET ps == script.pieces
        pos == watchers[1].reader.seek
        n1 == Len(ps[1])
        n2 == n1 + Len(ps[2])
        n3 == n2 + Len(ps[3])
    IN  SplitScenario(ps) =>
            /\ pos <= n3 => pos \in {0, n1, n2, n3}
            /\ pos = 0 => yielded[1] = <<>>
            /\ pos = n1 => yielded[1] = << << ps[1] >> >>
            /\ pos = n2 => yielded[1] = << << ps[1] >> >>
            /\ pos = n3 => yielded[1] = << << ps[1] >>, << ps[2] \o ps[3] >> >>

C12_Witness ==
    /\ script.pieces[1] = GoodLine(1)
    /\ script.pieces[2] = << FnTok(IntV(1)) >>
    /\ script.pieces[3] = << SpotsTok(IntV(50), IntV(42)), NL >>
    /\ watchers[1].reader.seek = 6
    /\ yielded[1] = << << GoodLine(1) >>, << GoodLine(1) >> >>
    /\ watchers[1].data_entries = 2

\* C13 (delta accounting).  For a channel registered once with
\* 0 <= from_index = k <= item count, the values ever put into it add up to
\* the store's length minus k.
C13_DeltaAccounting ==
    \A q \in 1..Len(regs) :
        LET r == FirstReg(q)
        IN  (Len(regs[q]) = 1 /\ 0 <= r.from_index /\ r.from_index <= r.item_count) =>
                Sum(enq[q]) = watchers[r.watcher].data_entries - r.from_index

\* C14 (item count follows the store).  Whenever another task can run, also
\* after the consume loop has ended, _item_count equals _data_entries.
C14_CountMatchesStore ==
    \A w \in 1..Len(watchers) : watchers[w].item_count = watchers[w].data_entries

\* C15 (enqueued values).  Every value put into a channel is at least 1 and at
\* most the store's length at the time of the put; a batch whose total is 0
\* puts nothing into any channel.
C15_Step ==
    /\ \A q \in 1..Len(enq') :
           LET before == IF q <= Len(enq) THEN Len(enq[q]) ELSE 0
               w == regs'[q][1].watcher
           IN  \A i \in (before + 1)..Len(enq'[q]) :
                   1 <= enq'[q][i] /\ enq'[q][i] <= watchers'[w].data_entries
    /\ \A w \in 1..Len(watchers) :
           (Len(totals'[w]) = Len(totals[w]) + 1 /\ totals'[w][Len(totals'[w])] = 0) =>
               enq' = enq /\ queues' = queues

C15_EnqueuedValues == [][C15_Step]_vars

C15_Witness ==
    \E q \in 1..Len(regs) :
        /\ FirstReg(q).batches = 0
        /\ totals[FirstReg(q).watcher] = << 0, 1 >>
        /\ enq[q] = << 1 >>

\* C16 (offset respected).  A listener registered with offset k is notified of
\* records at index k and above only: the values put into its channel add up
\* to at most max(0, store length - k).
C16_OffsetRespected ==
    \A l \in 1..Len(plisteners) :
        Sum(enq[plisteners[l].queue])
            <= Max(0, watchers[plisteners[l].watcher].data_entries - plisteners[l].offset)

\* C20 (the broadcast never blocks).  Whatever a channel already holds, a
\* batch with a nonzero total is appended to the store and its total is put
\* into every registered channel in the step that processes the batch: the
\* channel holds one value more.
C20_Step ==
    \A w \in 1..Len(watchers) :
        (Len(totals'[w]) = Len(totals[w]) + 1 /\ totals'[w][Len(totals'[w])] > 0) =>
            LET d == totals'[w][Len(totals'[w])]
            IN  /\ watchers'[w].data_entries = watchers[w].data_entries + d
                /\ watchers'[w].task = "running"
                /\ \A q \in watchers[w].listeners :
                       /\ Len(queues'[q]) = Len(queues[q]) + 1
                       /\ queues'[q][Len(queues'[q])] = d

C20_NeverBlocks == [][C20_Step]_vars

C20_Witness ==
    \E l1, l2 \in 1..Len(plisteners) :
        /\ plisteners[l1].watcher = plisteners[l2].watcher
        /\ taken[l1] = <<>>
        /\ queues[plisteners[l1].queue] = << 1, 1 >>
        /\ taken[l2] = << 1 >>
        /\ queues[plisteners[l2].queue] = << 1 >>
        /\ watchers[plisteners[l1].watcher].data_entries = 2

\* C17 (cancellation while awaiting the file).  With the signal set during a
\* wait of the existence poll, the tailer's next step ends it: it never opens
\* the file, yields no batch and does not start tailing, whatever happens to
\* the file afterwards.
C17_Step ==
    LET r == watchers[1].reader
        r2 == watchers'[1].reader
    IN  /\ (r.pc = "poll_wait" /\ r.cancel) =>
                /\ r2.pc \in {"poll_wait", "done"}
                /\ r2.f = "none"
                /\ yielded' = yielded
        /\ r.pc = "done" => (watchers'[1] = watchers[1] /\ yielded' = yielded)

C17_Unopened ==
    LET r == watchers[1].reader
    IN  (r.pc = "done" /\ r.f = "none") =>
            /\ r.cancel
            /\ r.pos = 0
            /\ yielded[1] = <<>>
            /\ watchers[1].data_entries = 0
            /\ watchers[1].task = "finished"

C17_CancelAwaiting == [][C17_Step]_vars /\ []C17_Unopened

C17_Witness ==
    /\ watchers[1].reader.pc = "done"
    /\ watchers[1].reader.f = "none"
    /\ fs[TailPath].exists
    /\ fs[TailPath].text = GoodLine(1)
    /\ yielded[1] = <<>>

\* C18 (cancellation while tailing).  The tailer ends only at a wait at which
\* the signal is set (after closing the file when it was open), and it
\* reaches the wait of the tailing state only by a read that returned
\* nothing; from that wait on it yields no batch and the buffered partial
\* line stays where it is; and once the signal is set the tailer eventually
\* ends.
C18_Step ==
    LET r == watchers[1].reader
        r2 == watchers'[1].reader
    IN  /\ (r.pc # "done" /\ r2.pc = "done") =>
                r.cancel /\ r.pc \in {"poll_wait", "close"}
        /\ (r.pc # "close" /\ r2.pc = "close") => (r.cancel /\ r.pc = "idle_wait")
        /\ r.pc = "read" =>
                /\ r2.pc \in {"read", "tell", "idle_wait"}
                /\ yielded' = yielded
                /\ r2.pc = "idle_wait" => r.pos = Len(fs[TailPath].text)
                /\ r2.pc = "tell" =>
                       (r.pos < Len(fs[TailPath].text) /\ r2.pos = Len(fs[TailPath].text))
        /\ r.pc = "tell" =>
                /\ r2.pc \in {"tell", "read"}
                /\ r2.pc = "read" => r2.seek = r.pos
        /\ (r.pc \in {"idle_wait", "close"} /\ r.cancel) =>
                /\ r2.pc \in {r.pc, "close", "done"}
                /\ r2.partial = r.partial
                /\ yielded' = yielded
        /\ r.pc = "done" => (r2 = r /\ yielded' = yielded)

C18_CancelTailing ==
    /\ [][C18_Step]_vars
    /\ (watchers[1].reader.cancel ~> watchers[1].reader.pc = "done")

C18_Witness ==
    /\ watchers[1].reader.pc = "done"
    /\ watchers[1].reader.f = "closed"
    /\ watchers[1].reader.partial = << FnTok(IntV(1)) >>
    /\ watchers[1].reader.pos = Len(fs[TailPath].text)
    /\ yielded[1] = << << GoodLine(1) >> >>

\* C19 (no termination without cancellation).  While the signal is not set
\* the tailer has not ended; while the file does not exist nothing is stored
\* and no channel has received a value; a wait that ends without the signal
\* leads back to the check or to the read; every newline read has ended a
\* yielded line; and text in the file that is not yet read is eventually
\* read, however many empty reads came before it was written.
NLLines(lines) == Len(SelectSeq(lines, LAMBDA line : EndsWith(line, NL)))

C19_Running ==
    LET r == watchers[1].reader
    IN  /\ ~r.cancel => (r.pc \notin {"close", "done"} /\ watchers[1].task = "running")
        /\ ~fs[TailPath].exists =>
                /\ r.f = "none"
                /\ watchers[1].data_entries = 0
                /\ \A q \in 1..Len(enq) : enq[q] = <<>>
        /\ NLLines(Flatten(yielded[1])) = LinesIn(SubSeq(fs[TailPath].text, 1, r.seek))

C19_Step ==
    LET r == watchers[1].reader
        r2 == watchers'[1].reader
    IN  /\ (r.pc = "poll_wait" /\ ~r.cancel /\ r2 # r) => (r2.pc = "isfile" \/ r2.cancel)
        /\ (r.pc = "idle_wait" /\ ~r.cancel /\ r2 # r) => (r2.pc = "read" \/ r2.cancel)

C19_Unread == watchers[1].reader.seek < Len(fs[TailPath].text)

C19_NeverEnds ==
    /\ []C19_Running
    /\ [][C19_Step]_vars
    /\ []<>(~C19_Unread \/ watchers[1].reader.cancel)

C19_Witness ==
    /\ Len(script.done) = 2
    /\ script.done[2] = "idle_wait"
    /\ ~watchers[1].reader.cancel
    /\ watchers[1].reader.pc = "idle_wait"
    /\ yielded[1] = << << GoodLine(1) >>, << GoodLine(1) >> >>
    /\ queues[1] = << 1, 1 >>

\* C27 (visit cache bound).  The cache holds at most 128 visits, the list and
\* the dictionary hold the same visits, and a lookup of a visit the database
\* holds returns its session without raising, also when it makes the cache
\* drop its oldest visit.
C27_CacheBound ==
    /\ Len(cache.visits) <= CacheLimit
    /\ Cardinality(DOMAIN cache.results) <= CacheLimit
    /\ { cache.visits[i] : i \in 1..Len(cache.visits) }
           = { cache.results[v] : v \in DOMAIN cache.results }
    /\ \A i \in 1..Len(returned) :
           (returned[i].visit.ok /\ returned[i].visit.num >= 1) =>
               /\ returned[i].exc = "none"
               /\ returned[i].ret.sessionId = returned[i].visit.num

\* C24 (rejected lines leave the store untouched).  For a line that is not
\* JSON, or is a JSON object without one of the three keys, process_line
\* returns 0 and the entry count, the capacity and every stored record are as
\* before.
Rejected(line) ==
    LET d == json_loads(line)
    IN  \/ d.kind = "JSONDecodeError"
        \/ d.kind = "dict" /\ d.keys # {"file-number", "n_spots_total", "n_spots_4A"}

C24_Step ==
    LET n == Len(yielded'[1])
    IN  (n = Len(yielded[1]) + 1 /\ Rejected(yielded'[1][n][1])) =>
            /\ totals'[1][n] = 0
            /\ watchers'[1].data_entries = watchers[1].data_entries
            /\ watchers'[1].data = watchers[1].data
            /\ appended' = appended

C24_RejectedUntouched == [][C24_Step]_vars

C24_Witness ==
    /\ yielded[1] = << << GoodLine(1) >>, << MissingKeyLine >>, << NotJsonLine >> >>
    /\ totals[1] = << 1, 0, 0 >>
    /\ watchers[1].data_entries = watchers[1].data.pre + 1
    /\ getitem(watchers[1], watchers[1].data.pre, watchers[1].data_entries)
           = << RecordOf(GoodLine(1)) >>

\* C25 (store capacity).  The entry count is below the number of rows of the
\* array before and after every process_line; the array grows exactly when the
\* entry count reaches the number of rows, by 10000 rows, and every row
\* written before is found at its index with its value afterwards.
C25_Step ==
    LET w == watchers[1]
        w2 == watchers'[1]
    IN  /\ w.data_entries < w.data.rows
        /\ w2.data_entries < w2.data.rows
        /\ w2.data.rows = IF w2.data_entries = w.data.rows
                          THEN w.data.rows + GrowRows ELSE w.data.rows
        /\ w2.data.pre = w.data.pre
        /\ getitem(w2, w.data.pre, w.data_entries) = getitem(w, w.data.pre, w.data_entries)

C25_Capacity == [][C25_Step]_vars

\* C26 (batches hold whole lines).  Every batch yielded is non-empty and every
\* line in it ends with the newline, whatever the text of the file.
C26_BatchLines ==
    \A i \in 1..Len(yielded[1]) :
        /\ yielded[1][i] # <<>>
        /\ \A j \in 1..Len(yielded[1][i]) : EndsWith(yielded[1][i][j], NL)

\* C21 (registry identity).  The registry holds at most one watcher per
\* (class, path): every watcher is the one registered under its own class and
\* path, lookups return the same watcher exactly when class and path are the
\* same, and a step of one watcher's task or a registration on it leaves the
\* store, the listener set and the task of every other watcher as they were.
C21_Step ==
    \A w \in 1..Len(watchers) :
        watchers'[w] # watchers[w] =>
            \A w2 \in 1..Len(watchers) : w2 # w => watchers'[w2] = watchers[w2]

C21_Identity ==
    /\ \A w \in 1..Len(watchers) :
           registry[<<watchers[w].cls, watchers[w].filename>>] = w
    /\ \A key \in DOMAIN registry :
           registry[key] # 0 =>
               /\ registry[key] \in 1..Len(watchers)
               /\ watchers[registry[key]].cls = key[1]
               /\ watchers[registry[key]].filename = key[2]
    /\ \A l1 \in lookups, l2 \in lookups :
           (l1[1] = l2[1] /\ l1[2] = l2[2]) <=> l1[3] = l2[3]

C21_RegistryIdentity == [](C21_Identity) /\ [][C21_Step]_vars

C21_Witness ==
    LET f == registry[<<"FileWatcherEmitter", "b.txt">>]
        b == registry[<<"PIAWatcher", "b.txt">>]
        a == registry[<<"PIAWatcher", "a.txt">>]
    IN  /\ f # 0 /\ b # 0 /\ a # 0
        /\ Cardinality({f, b, a}) = 3
        /\ {<<"FileWatcherEmitter", "b.txt", f>>, <<"PIAWatcher", "b.txt", b>>,
             <<"PIAWatcher", "a.txt", a>>} = lookups
        /\ watchers[f].task = "failed" /\ watchers[f].listeners = {}
        /\ watchers[b].task = "running" /\ watchers[b].listeners = {1}
        /\ watchers[b].data_entries = 1 /\ watchers[a].data_entries = 0
        /\ watchers[a].reader.pc = "poll_wait"

\* C22 (registry entries are permanent).  A registry entry never changes once
\* set and a lookup of a registered identity creates no watcher, also when the
\* task of the watcher has ended; a task that has ended stays ended; a queue
\* registered on a watcher whose task has ended receives at most the backlog
\* of that registration and no other value.
Ended(w) == watchers[w].task # "running"

C22_Step ==
    /\ \A key \in DOMAIN registry : registry[key] # 0 => registry'[key] = registry[key]
    /\ Len(watchers') = Cardinality({key \in DOMAIN registry : registry'[key] # 0})
    /\ \A w \in 1..Len(watchers) : Ended(w) => watchers'[w].task = watchers[w].task
    /\ \A l \in lookups' :
           registry[<<l[1], l[2]>>] # 0 => l[3] = registry[<<l[1], l[2]>>]
    /\ \A w \in 1..Len(watchers') :
           w > Len(watchers) => registry[<<watchers'[w].cls, watchers'[w].filename>>] = 0
    /\ \A q \in 1..Len(enq') :
           LET w == regs'[q][1].watcher
               before == IF q <= Len(enq) THEN enq[q] ELSE <<>>
               nregs == IF q <= Len(regs) THEN Len(regs[q]) ELSE 0
           IN  (w <= Len(watchers) /\ Ended(w)) =>
                   enq'[q] = IF Len(regs'[q]) > nregs
                             THEN before \o Backlog(regs'[q][Len(regs'[q])])
                             ELSE before

C22_Permanent == [][C22_Step]_vars

C22_Witness ==
    /\ Len(watchers) = 1
    /\ watchers[1].task = "failed"
    /\ watchers[1].item_count = 0 /\ watchers[1].data_entries = 1
    /\ lookups = {<<"PIAWatcher", "b.txt", 1>>}
    /\ Len(regs) = 1 /\ Len(regs[1]) = 1
    /\ regs[1][1].task = "failed" /\ regs[1][1].entries = 1
    /\ enq[1] = <<>>
    /\ fs["b.txt"].text = GoodLine(1) \o NonObjectLine

C22_WitnessCancelled ==
    /\ Len(watchers) = 1
    /\ watchers[1].task = "finished"
    /\ watchers[1].item_count = 1
    /\ LinesIn(fs["b.txt"].text) = 2
    /\ Len(regs) = 1 /\ Len(regs[1]) = 1
    /\ regs[1][1].task = "finished" /\ regs[1][1].item_count = 1
    /\ enq[1] = << 1 >>

\* C23 (double registration).  A second add_listener with a queue the watcher
\* holds leaves the listener set as it is and puts the backlog again when
\* from_index is below the item count; every later nonzero batch total is put
\* into the queue once.
C23_Step ==
    \A q \in 1..Len(enq) :
        LET w == regs[q][1].watcher
        IN  /\ Len(regs'[q]) > Len(regs[q]) =>
                LET r == regs'[q][Len(regs'[q])]
                IN  /\ r.watcher = w /\ r.item_count = watchers[w].item_count
                    /\ q \in watchers[w].listeners
                    /\ watchers'[w].listeners = watchers[w].listeners
                    /\ enq'[q] = enq[q] \o (IF r.from_index < r.item_count
                                              THEN << r.item_count - r.from_index >>
                                              ELSE <<>>)
            /\ Len(totals'[w]) > Len(totals[w]) =>
                enq'[q] = enq[q] \o NonZero(<< totals'[w][Len(totals'[w])] >>)

C23_DoubleRegistration == [][C23_Step]_vars

C23_Witness ==
    /\ Len(regs) = 1 /\ Len(regs[1]) = 2
    /\ regs[1][1].item_count = 0
    /\ regs[1][2].item_count = 1 /\ regs[1][2].batches = 1
    /\ totals[regs[1][1].watcher] = << 1, 1 >>
    /\ enq[1] = << 1, 1, 1 >>
    /\ watchers[regs[1][1].watcher].listeners = {1}

====
